---- MODULE Spec2Model ----
(***************************************************************************)
(* isaw.id: the class Maker of src/isaw/id/__init__.py.                    *)
(*                                                                         *)
(* A Maker makes ids from content bytes and a datetime stamp and, when it  *)
(* was built with ensure_unique, checks them against one registry file per *)
(* namespace, kept in the directory registry_path.  The model holds one    *)
(* Maker at a time (a session: Construct, Make ..., Teardown), the         *)
(* registry directory, its tmp subdirectory and the wall clock.            *)
(*                                                                         *)
(* Text is a sequence of character codes (ASCII / bytes), so that the      *)
(* conversions of the code (encode, isoformat, hexdigest, join,            *)
(* splitlines, format) are computed and not assumed.  An optional          *)
(* argument is <<>> when it is left out (None) and <<v>> when v is given.  *)
(***************************************************************************)
EXTENDS Integers, Sequences, FiniteSets, TLC

\* ------------------------------------------------------------ constants

DEFAULT_ID_LENGTH == 3

DEFAULT_NAMESPACE == <<>>

MAX_TRIES == 10

\* WHEN of the tests, a fixed instant before the module was imported.
WHEN == 0

\* The instant the module is imported: the clock's first value.
ImportTime == 1

\* ---------------------------------------------------------------- bounds

\* make() calls over the whole run.
MaxCalls == 2

\* Maker instances constructed over the whole run.
MaxSessions == 2

\* The last instant of the wall clock.
MaxClock == 2

\* The longest text of a registry file drawn at will.
MaxText == 3

\* Identifiers a second Maker on the same directory registers.
MaxOthers == 2

\* ------------------------------------------------------------------ text

None == <<>>

Some(v) == <<v>>

LF == 10

Dot == 46

Slash == 47

\* The code of one hexadecimal digit, lowercase as hexdigest() writes it.
HexDigit(d) == IF d < 10 THEN 48 + d ELSE 87 + d

\* str(n) for n >= 0, in decimal.
RECURSIVE Decimal(_)
Decimal(n) == IF n < 10 THEN <<48 + n>> ELSE Decimal(n \div 10) \o <<48 + (n % 10)>>

\* datetime.isoformat(): an instant t is written "T<t>".
IsoFormat(t) == <<84>> \o Decimal(t)

\* str.encode('utf-8') of one code point below 0x800.
Utf8Char(cp) == IF cp < 128 THEN <<cp>> ELSE <<192 + (cp \div 64), 128 + (cp % 64)>>

RECURSIVE Utf8Encode(_)
Utf8Encode(s) == IF s = <<>> THEN <<>> ELSE Utf8Char(Head(s)) \o Utf8Encode(Tail(s))

\* A content argument: a str (code points) or a bytes value.
Str(s) == [type |-> "str", val |-> s]

Bytes(b) == [type |-> "bytes", val |-> b]

\* make(), lines 117-120: the bytes of the content.
ContentBytes(content) == IF content.type = "str" THEN Utf8Encode(content.val) ELSE content.val

\* ------------------------------------------------------------------ hash

\* A stand-in for BLAKE2b's compression: it folds the data into one byte.
RECURSIVE Mix(_, _)
Mix(h, data) == IF data = <<>> THEN h ELSE Mix((h * 31 + Head(data)) % 256, Tail(data))

\* blake2b(data, digest_size=n).hexdigest(): 2n lowercase hex digits.
\* digest_size is a parameter of the hash, so a longer digest is not an
\* extension of a shorter one; byte i of the stand-in is Mix(n, data) + 37 i.
HexDigest(data, n) ==
    LET m == Mix(n, data)
        byte(i) == (m + 37 * i) % 256
    IN  [j \in 1..(2 * n) |->
            IF j % 2 = 1 THEN HexDigit(byte((j + 1) \div 2) \div 16)
            ELSE HexDigit(byte(j \div 2) % 16)]

\* ----------------------------------------------------------------- files

\* Where the lines of a text end: at every LF, and after the last character
\* when that is no LF.  What follows the last LF is a line only if it is not
\* empty.
LineEnds(text) ==
    {i \in DOMAIN text : text[i] = LF}
    \cup (IF text # <<>> /\ text[Len(text)] # LF THEN {Len(text) + 1} ELSE {})

\* The line of text that ends at e, one of ends: it starts after the line end
\* before e, if there is one.
LineEndingAt(text, ends, e) ==
    IF \A x \in ends : x >= e THEN SubSeq(text, 1, e - 1)
    ELSE SubSeq(text, 1 + (CHOOSE m \in ends : m < e /\ \A x \in ends : x < e => x <= m), e - 1)

\* The lines of text in order, given where they end.
LinesOf(text, ends) ==
    [k \in 1..Cardinality(ends) |->
        LineEndingAt(text, ends, CHOOSE e \in ends : Cardinality({x \in ends : x <= e}) = k)]

\* str.splitlines() of a text whose only line break is LF.
SplitLines(text) == CHOOSE lines \in {LinesOf(text, ends) : ends \in {LineEnds(text)}} : TRUE

\* Join with the line breaks left out.
RECURSIVE JoinNoBreaks(_)
JoinNoBreaks(lines) == IF lines = <<>> THEN <<>> ELSE Head(lines) \o JoinNoBreaks(Tail(lines))

\* '\n'.join(lines)
RECURSIVE Join(_)
Join(lines) ==
    IF lines = <<>> THEN <<>>
    ELSE IF Len(lines) = 1 THEN Head(lines)
    ELSE Head(lines) \o <<LF>> \o Join(Tail(lines))

Range(s) == {s[i] : i \in DOMAIN s}

\* The members of a set, one after the other in some order.
RECURSIVE SomeOrder(_)
SomeOrder(S) ==
    IF S = {} THEN <<>>
    ELSE LET x == CHOOSE y \in S : TRUE IN <<x>> \o SomeOrder(S \ {x})

\* A directory listing f with the file name holding text.
Put(f, name, text) == [x \in DOMAIN f \cup {name} |-> IF x = name THEN text ELSE f[x]]

NoFiles == [x \in {} |-> <<>>]

\* ----------------------------------------------------------------- inputs

Foo == <<102, 111, 111>>

\* The content argument: the str 'foo' of the tests.
Contents == {Str(Foo)}

\* Namespaces: "t" has a registry file with one seed line (tests/data/nstest
\* copied to temptest), "f" a registry file that holds every digest make() can
\* reach for 'foo' at WHEN from the default length, "x" has no file ('bogus').
NsSeeded == <<116>>

NsFull == <<102>>

NsMissing == <<120>>

Namespaces == {DEFAULT_NAMESPACE, NsSeeded, NsFull, NsMissing}

\* The namespace= values Maker() is given.
DefaultNamespaces == {NsSeeded}

\* The namespace= values make() is given.
CallNamespaces == {DEFAULT_NAMESPACE, NsFull, NsMissing}

\* The id_length= values Maker() is given.
DefaultIdLengths == {DEFAULT_ID_LENGTH}

\* The id_length= values make() is given.
CallIdLengths == {1}

\* The date_time= values make() is given.
DateTimes == {WHEN}

\* registry_path= values: the registry directory, and a path that is no directory.
RegistryDir == <<114>>

NoSuchDir == <<110>>

\* The digests of every data and digest size make() meets here, computed once.
Instants == {WHEN} \cup (ImportTime..MaxClock)

Blake2bTable ==
    [x \in {IsoFormat(t) \o ContentBytes(c) : t \in Instants, c \in Contents}
            \X (1..(DEFAULT_ID_LENGTH + MAX_TRIES)) |-> HexDigest(x[1], x[2])]

Blake2bHex(data, n) ==
    IF <<data, n>> \in DOMAIN Blake2bTable THEN Blake2bTable[<<data, n>>] ELSE HexDigest(data, n)

FooAtWhen == IsoFormat(WHEN) \o Foo

SeedLines == {Blake2bHex(FooAtWhen, DEFAULT_ID_LENGTH)}

SeedText == Join(SomeOrder(SeedLines)) \o <<LF>>

FullLines == [i \in 1..(MAX_TRIES + 1) |-> Blake2bHex(FooAtWhen, DEFAULT_ID_LENGTH + i - 1)]

\* The full registry repeats its first line, and ends with a line break.
FullText == Join(<<FullLines[1]>> \o FullLines) \o <<LF>>

\* ------------------------------------------------------------------ state

VARIABLES
    clock,      \* datetime.now()
    files,      \* the regular files of registry_path: name -> text
    tmp,        \* registry_path/tmp: [exists, files: name -> text]
    alive,      \* a Maker instance exists
    ensure,     \* self.ensure
    namespace,  \* self.namespace
    id_length,  \* self.id_length
    registry,   \* self.registry: namespace -> set of lines
    keys,       \* self.registry's keys in insertion order
    dirty,      \* self.dirty: namespace -> TRUE
    atLoad,     \* history: namespace -> the text its file had when it was loaded
    issued,     \* history: <<namespace, digest>> of the ids this instance registered
    raised,     \* history: the errors make() has raised in this instance
    past,       \* history: <<namespace, digest>> registered by the instances before
    last,       \* the last call: its arguments, what it returned or raised, its steps
    calls,      \* make() calls so far
    sessions,   \* Maker instances so far
    foreign     \* history: <<namespace, digest>> written by a second Maker

vars == <<clock, files, tmp, alive, ensure, namespace, id_length, registry, keys,
          dirty, atLoad, issued, raised, past, last, calls, sessions, foreign>>

instance == <<alive, ensure, namespace, id_length, registry, keys, dirty, atLoad, issued,
              raised>>

disk == <<files, tmp>>

NoArgs == [content |-> Str(<<>>), namespace |-> None, date_time |-> None, id_length |-> None]

\* What an operation leaves in last.
Outcome(op, args, data, ret, err, tries, ops) ==
    [op |-> op, args |-> args, data |-> data, ret |-> ret, err |-> err,
     tries |-> tries, ops |-> ops]

Quiet(op) == Outcome(op, NoArgs, <<>>, None, "", 0, <<>>)

\* One call the handler made on the file system.
Io(call, src, dst) == [call |-> call, src |-> src, dst |-> dst]

TmpName == <<116, 109, 112>>

\* join(path_tmp, ns), relative to registry_path
TmpPath(ns) == TmpName \o <<Slash>> \o ns

\* join(self.registry_path, ns) names a regular file: '' names the directory itself.
IsFile(ns) == ns # <<>> /\ ns \in DOMAIN files

Init ==
    /\ clock = ImportTime
    /\ files = Put(Put(NoFiles, NsSeeded, SeedText), NsFull, FullText)
    /\ tmp = [exists |-> FALSE, files |-> NoFiles]
    /\ alive = FALSE
    /\ ensure = FALSE
    /\ namespace = DEFAULT_NAMESPACE
    /\ id_length = DEFAULT_ID_LENGTH
    /\ registry = NoFiles
    /\ keys = <<>>
    /\ dirty = NoFiles
    /\ atLoad = NoFiles
    /\ issued = {}
    /\ raised = {}
    /\ past = {}
    /\ last = Quiet("import")
    /\ calls = 0
    /\ sessions = 0
    /\ foreign = {}

\* The wall clock moves on between operations.
Tick ==
    /\ clock < MaxClock
    /\ clock' = clock + 1
    /\ UNCHANGED <<disk, instance, past, last, calls, sessions, foreign>>

\* Maker.__init__, lines 55-71.
Construct(ensure_unique, registry_path, ns, length) ==
    /\ ~alive
    /\ sessions < MaxSessions
    /\ sessions' = sessions + 1
    /\ IF ensure_unique /\ registry_path = None
       THEN /\ last' = Outcome("init", NoArgs, <<>>, None, "ValueError", 0, <<>>)
            /\ UNCHANGED instance
       ELSE IF ensure_unique /\ registry_path # Some(RegistryDir)
       THEN /\ last' = Outcome("init", NoArgs, <<>>, None, "IOError", 0, <<>>)
            /\ UNCHANGED instance
       ELSE /\ alive' = TRUE
            /\ ensure' = ensure_unique
            /\ namespace' = ns
            /\ id_length' = length
            /\ registry' = NoFiles
            /\ keys' = <<>>
            /\ dirty' = NoFiles
            /\ atLoad' = NoFiles
            /\ issued' = {}
            /\ raised' = {}
            /\ last' = Quiet("init")
    /\ UNCHANGED <<clock, disk, past, calls, foreign>>

\* ------------------------------------------------------------- make()

\* A load that takes a path that is no file for an empty registry.
LoadRegisterLenient(ns) ==
    IF ns \in DOMAIN registry
    THEN [err |-> "", hit |-> TRUE, r |-> registry[ns], text |-> <<>>, ops |-> <<>>]
    ELSE [err |-> "", hit |-> FALSE,
          r |-> IF IsFile(ns) THEN Range(SplitLines(files[ns])) ELSE {},
          text |-> IF IsFile(ns) THEN files[ns] ELSE <<>>,
          ops |-> <<Io("makedirs", <<>>, TmpName)>>]

\* A load that reads the file again when the namespace is cached already.
LoadRegisterFresh(ns) ==
    IF ~IsFile(ns)
    THEN [err |-> "IOError", hit |-> FALSE, r |-> {}, text |-> <<>>,
          ops |-> <<Io("makedirs", <<>>, TmpName)>>]
    ELSE [err |-> "", hit |-> ns \in DOMAIN registry,
          r |-> Range(SplitLines(files[ns]))
                \cup (IF ns \in DOMAIN registry THEN registry[ns] ELSE {}),
          text |-> files[ns],
          ops |-> <<Io("read", ns, <<>>)>>]

\* Maker._load_register, lines 166-193: the cached set, or the lines of the
\* file after a copy of the file is put into tmp.  copy2 raises for a path
\* that is no regular file, after makedirs has made tmp.  hit: the set was
\* cached; text: what was read.
LoadRegister(ns) ==
    IF ns \in DOMAIN registry
    THEN [err |-> "", hit |-> TRUE, r |-> registry[ns], text |-> <<>>, ops |-> <<>>]
    ELSE IF ~IsFile(ns)
    THEN [err |-> "IOError", hit |-> FALSE, r |-> {}, text |-> <<>>,
          ops |-> <<Io("makedirs", <<>>, TmpName)>>]
    ELSE [err |-> "", hit |-> FALSE, r |-> Range(SplitLines(files[ns])), text |-> files[ns],
          ops |-> <<Io("makedirs", <<>>, TmpName), Io("copy2", ns, TmpPath(ns)),
                    Io("read", ns, <<>>)>>]

\* tmp is made and no copy of the file is put into it.
TmpAfterNoCopy(ns, ld) == IF ld.hit THEN tmp ELSE [exists |-> TRUE, files |-> tmp.files]

\* _load_register, lines 173-176: tmp after the load ld of ns.
TmpAfter(ns, ld) ==
    IF ld.hit THEN tmp
    ELSE IF ld.err # "" THEN [exists |-> TRUE, files |-> tmp.files]
    ELSE [exists |-> TRUE, files |-> Put(tmp.files, ns, ld.text)]

\* _load_register, line 192: self.registry[ns] = r.
Cache(reg, ns, r) == Put(reg, ns, r)

\* A digest counts as taken when any loaded namespace holds it.
UniqueAnywhere(r, digest) ==
    ~(digest \in r) /\ \A k \in DOMAIN registry : ~(digest \in registry[k])

\* Maker._unique, lines 154-157, on the loaded set r.
Unique(r, digest) == ~(digest \in r)

\* The loop with one try too many: tries > MAX_TRIES.
RECURSIVE RetryOneMore(_, _, _, _)
RetryOneMore(r, data, length, tries) ==
    IF Unique(r, Blake2bHex(data, length))
    THEN [err |-> "", digest |-> Blake2bHex(data, length), length |-> length, tries |-> tries]
    ELSE IF tries > MAX_TRIES
    THEN [err |-> "ValueError", digest |-> Blake2bHex(data, length), length |-> length,
          tries |-> tries]
    ELSE RetryOneMore(r, data, length + 1, tries + 1)

\* The loop that leaves with the last digest instead of raising.
RECURSIVE RetryNoRaise(_, _, _, _)
RetryNoRaise(r, data, length, tries) ==
    IF Unique(r, Blake2bHex(data, length)) \/ tries >= MAX_TRIES
    THEN [err |-> "", digest |-> Blake2bHex(data, length), length |-> length, tries |-> tries]
    ELSE RetryNoRaise(r, data, length + 1, tries + 1)

\* make(), lines 133-146: the loop that lengthens the digest while it collides.
RECURSIVE Retry(_, _, _, _)
Retry(r, data, length, tries) ==
    IF Unique(r, Blake2bHex(data, length))
    THEN [err |-> "", digest |-> Blake2bHex(data, length), length |-> length, tries |-> tries]
    ELSE IF tries >= MAX_TRIES
    THEN [err |-> "ValueError", digest |-> Blake2bHex(data, length), length |-> length,
          tries |-> tries]
    ELSE Retry(r, data, length + 1, tries + 1)

\* _register that adds nothing to the set.
RegisterForgets(reg, ns, digest) == reg

\* _register that keeps the new digest only.
RegisterReplaces(reg, ns, digest) == Put(reg, ns, {digest})

\* Maker._register, lines 160-163.
Register(reg, ns, digest) == Put(reg, ns, reg[ns] \cup {digest})

MarkDirty(d, ns) == Put(d, ns, TRUE)

\* The identifier without its namespace, whatever the namespace is.
FormatFlat(ns, digest) == <<Slash>> \o digest

\* make(), lines 148-151.
Format(ns, digest) ==
    IF ns # <<>> THEN <<Slash>> \o ns \o <<Slash>> \o digest ELSE <<Slash>> \o digest

\* make(), line 101: the default of date_time is evaluated once, when the def
\* statement runs at import.
DefaultDateTime == ImportTime

\* The default of date_time taken from the clock at the call.
DateTimeOfCall(args) == IF args.date_time = None THEN clock ELSE args.date_time[1]

\* make(), lines 116-131: what the arguments resolve to.
DateTimeOf(args) == IF args.date_time = None THEN DefaultDateTime ELSE args.date_time[1]

DataOf(args) == IsoFormat(DateTimeOf(args)) \o ContentBytes(args.content)

\* lines 122-125: id_length is used when it is not None.
EffectiveLength(lenArg, default) == IF lenArg # None THEN lenArg[1] ELSE default

LengthOf(args) == EffectiveLength(args.id_length, id_length)

\* The namespace argument is used only when it is not empty.
NamespaceIfNotEmpty(nsArg, default) ==
    IF nsArg = None \/ nsArg = Some(<<>>) THEN default ELSE nsArg[1]

\* lines 128-131: namespace is used when it is not None.
EffectiveNamespace(nsArg, default) == IF nsArg = None THEN default ELSE nsArg[1]

NamespaceOf(args) == EffectiveNamespace(args.namespace, namespace)

Args(content, ns, date_time, length) ==
    [content |-> content, namespace |-> ns, date_time |-> date_time, id_length |-> length]

\* Maker.make, lines 97-151.
Make(content, nsArg, dtArg, lenArg) ==
    /\ alive
    /\ calls < MaxCalls
    /\ calls' = calls + 1
    /\ \E args \in {Args(content, nsArg, dtArg, lenArg)} :
       \E data \in {DataOf(args)}, length \in {LengthOf(args)}, ns \in {NamespaceOf(args)} :
          IF ~ensure
          THEN /\ last' = Outcome("make", args, data,
                                  Some(Format(ns, Blake2bHex(data, length))), "", 0, <<>>)
               /\ UNCHANGED <<tmp, registry, keys, dirty, atLoad, issued, raised>>
          ELSE \E ld \in {LoadRegister(ns)} :
               IF ld.err # ""
               THEN /\ tmp' = TmpAfter(ns, ld)
                    /\ last' = Outcome("make", args, data, None, ld.err, 0, ld.ops)
                    /\ raised' = raised \cup {ld.err}
                    /\ UNCHANGED <<registry, keys, dirty, atLoad, issued>>
               ELSE \E try \in {Retry(ld.r, data, length, 0)} :
                    /\ tmp' = TmpAfter(ns, ld)
                    /\ keys' = IF ld.hit THEN keys ELSE Append(keys, ns)
                    /\ atLoad' = IF ld.hit THEN atLoad ELSE Put(atLoad, ns, ld.text)
                    /\ IF try.err # ""
                       THEN /\ registry' = Cache(registry, ns, ld.r)
                            /\ last' = Outcome("make", args, data, None, try.err,
                                               try.tries, ld.ops)
                            /\ raised' = raised \cup {try.err}
                            /\ UNCHANGED <<dirty, issued>>
                       ELSE /\ registry' = Register(Cache(registry, ns, ld.r), ns, try.digest)
                            /\ dirty' = MarkDirty(dirty, ns)
                            /\ issued' = issued \cup {<<ns, try.digest>>}
                            /\ last' = Outcome("make", args, data,
                                               Some(Format(ns, try.digest)), "",
                                               try.tries, ld.ops)
                            /\ UNCHANGED raised
    /\ UNCHANGED <<clock, files, alive, ensure, namespace, id_length, past, sessions, foreign>>

\* ----------------------------------------------------------- __del__()

Bak == <<98, 97, 107>>

\* '{}.{}.bak'.format(path, stamp), line 91
BakName(k, now) == k \o <<Dot>> \o IsoFormat(now) \o <<Dot>> \o Bak

Reverse(s) == [i \in 1..Len(s) |-> s[Len(s) + 1 - i]]

\* list(v), line 93: a set is listed in an order of its own.  The model lists
\* it in one order or in the reverse of that order.
ListOrders(v) == UNION {{o, Reverse(o)} : o \in {SomeOrder(v)}}

\* The backup is made and the file is left as it was.
WriteBackKeepsFile(fs, k, lines, now) == Put(fs, BakName(k, now), fs[k])

\* The file is written over first and copied to its .bak name after.
WriteBackLate(fs, k, lines, now) ==
    Put(Put(fs, k, Join(lines)), BakName(k, now), Join(lines))

\* __del__, lines 89-93, for one dirty namespace k: the file is copied to its
\* .bak name, then written over with the lines of the set.
WriteBack(fs, k, lines, now) == Put(Put(fs, BakName(k, now), fs[k]), k, Join(lines))

WriteBackOps(k, now) == <<Io("copy2", k, BakName(k, now)), Io("write", <<>>, k)>>

\* Every loaded namespace counts as dirty.
IsDirtyAlways(k) == TRUE

\* __del__, lines 83-88: dirty = self.dirty[k] is there and true.
IsDirty(k) == k \in DOMAIN dirty /\ dirty[k]

\* __del__, lines 82-93: the loop over self.registry.items(); every way it
\* can end, as [files, ops].  A namespace that is not dirty is passed over.
RECURSIVE Flush(_, _, _)
Flush(ks, fs, ops) ==
    IF ks = <<>> THEN {[files |-> fs, ops |-> ops]}
    ELSE IF IsDirty(Head(ks))
    THEN UNION {Flush(Tail(ks), WriteBack(fs, Head(ks), lines, clock),
                      ops \o WriteBackOps(Head(ks), clock))
                : lines \in ListOrders(registry[Head(ks)])}
    ELSE Flush(Tail(ks), fs, Append(ops, Io("pass", Head(ks), <<>>)))

\* __del__, lines 94-95: rmtree of tmp when a namespace was loaded.
RemoveTmp(n, t) == IF n > 0 THEN [exists |-> FALSE, files |-> NoFiles] ELSE t

RemoveTmpOps(n) == IF n > 0 THEN <<Io("rmtree", <<>>, TmpName)>> ELSE <<>>

\* Maker.__del__, lines 74-95, and the end of the instance.
Teardown ==
    /\ alive
    /\ IF ensure
       THEN \E out \in Flush(keys, files, <<>>) :
                /\ files' = out.files
                /\ tmp' = RemoveTmp(Len(keys), tmp)
                /\ last' = Outcome("del", NoArgs, <<>>, None, "", 0,
                                   out.ops \o RemoveTmpOps(Len(keys)))
       ELSE /\ last' = Quiet("del")
            /\ UNCHANGED disk
    /\ alive' = FALSE
    /\ ensure' = FALSE
    /\ namespace' = DEFAULT_NAMESPACE
    /\ id_length' = DEFAULT_ID_LENGTH
    /\ registry' = NoFiles
    /\ keys' = <<>>
    /\ dirty' = NoFiles
    /\ atLoad' = NoFiles
    /\ issued' = {}
    /\ raised' = {}
    /\ past' = past \cup issued
    /\ UNCHANGED <<clock, calls, sessions, foreign>>

\* ------------------------------------------------------- specification

Next ==
    \/ Tick
    \/ \E e \in BOOLEAN, p \in {None, Some(RegistryDir), Some(NoSuchDir)},
          ns \in DefaultNamespaces, n \in DefaultIdLengths : Construct(e, p, ns, n)
    \/ \E c \in Contents, ns \in {None} \cup {Some(x) : x \in CallNamespaces},
          dt \in {None} \cup {Some(t) : t \in DateTimes},
          n \in {None} \cup {Some(l) : l \in CallIdLengths} : Make(c, ns, dt, n)
    \/ Teardown

Spec == Init /\ [][Next]_vars

\* --------------------------------- a second Maker on the same directory

\* A second enforcing Maker on registry_path, in another process, from its
\* first make() to its teardown in one step: it loads the file of ns, registers
\* the digest of its input, backs the file up, writes its set over it and
\* removes tmp.
OtherMaker(ns, content, length) ==
    /\ IsFile(ns)
    /\ Cardinality(foreign) < MaxOthers
    /\ \E r \in {Range(SplitLines(files[ns]))} :
       \E try \in {Retry(r, DataOf(Args(content, Some(ns), None, Some(length))), length, 0)} :
          /\ try.err = ""
          /\ <<ns, try.digest>> \notin foreign
          /\ foreign' = foreign \cup {<<ns, try.digest>>}
          /\ \E lines \in ListOrders(r \cup {try.digest}) :
                files' = WriteBack(files, ns, lines, clock)
          /\ tmp' = RemoveTmp(1, tmp)
    /\ UNCHANGED <<clock, instance, past, last, calls, sessions>>

\* The lengths the second Maker asks for.
OtherIdLengths == DefaultIdLengths \cup CallIdLengths

NextShared ==
    \/ Construct(TRUE, Some(RegistryDir), NsSeeded, DEFAULT_ID_LENGTH)
    \/ \E c \in Contents, n \in {None} \cup {Some(l) : l \in CallIdLengths} :
          Make(c, None, None, n)
    \/ Teardown
    \/ \E c \in Contents, n \in OtherIdLengths : OtherMaker(NsSeeded, c, n)

SpecShared == Init /\ [][NextShared]_vars

\* ------------------------------------------ a teardown whose I/O fails

\* Where the flush of one namespace can fail: copy2 (line 91), open(path, 'w')
\* (line 92), f.write (line 93).
FailSteps == {"copy2", "open", "write"}

\* The files after the flush of namespace k failed at step: nothing is there
\* of a copy2 that failed; after it the backup is there, and the file is as it
\* was if open failed and cut to nothing if the write failed.
FailedWriteBack(fs, k, step, now) ==
    IF step = "copy2" THEN fs
    ELSE IF step = "open" THEN Put(fs, BakName(k, now), fs[k])
    ELSE Put(Put(fs, BakName(k, now), fs[k]), k, <<>>)

\* The calls of a flush that failed at step, and the exception that leaves
\* __del__ there.  Python does not hand an exception of __del__ to the code
\* that dropped the instance: it reports it on stderr and goes on.
FailedWriteBackOps(k, step, now) ==
    (IF step = "copy2" THEN <<>> ELSE <<Io("copy2", k, BakName(k, now))>>)
    \o <<Io(step, k, <<>>), Io("unraisable", k, <<>>)>>

\* Maker.__del__, lines 74-95, when the flush of the i-th loaded namespace
\* fails at step: the namespaces before it are flushed, the loop and line 95
\* are not reached, and the instance is gone.
TeardownFails(i, step) ==
    /\ alive
    /\ ensure
    /\ i \in 1..Len(keys)
    /\ IsDirty(keys[i])
    /\ \E out \in Flush(SubSeq(keys, 1, i - 1), files, <<>>) :
          /\ files' = FailedWriteBack(out.files, keys[i], step, clock)
          /\ last' = Outcome("del", NoArgs, <<>>, None, "", 0,
                             out.ops \o FailedWriteBackOps(keys[i], step, clock))
    /\ alive' = FALSE
    /\ ensure' = FALSE
    /\ namespace' = DEFAULT_NAMESPACE
    /\ id_length' = DEFAULT_ID_LENGTH
    /\ registry' = NoFiles
    /\ keys' = <<>>
    /\ dirty' = NoFiles
    /\ atLoad' = NoFiles
    /\ issued' = {}
    /\ raised' = {}
    /\ past' = past \cup issued
    /\ UNCHANGED <<clock, tmp, calls, sessions, foreign>>

NextFaulty ==
    \/ Construct(TRUE, Some(RegistryDir), NsSeeded, DEFAULT_ID_LENGTH)
    \/ \E c \in Contents, ns \in {None, Some(NsFull)},
          n \in {None} \cup {Some(l) : l \in CallIdLengths} : Make(c, ns, None, n)
    \/ Teardown
    \/ \E i \in 1..MaxCalls, step \in FailSteps : TeardownFails(i, step)

SpecFaulty == Init /\ [][NextFaulty]_vars

\* ---------------------------------------- registry files of any content

\* A namespace "l" whose file holds any text of line breaks and the hex
\* digit 'a', the empty text and blank lines included.
NsLoose == <<108>>

LooseChars == {LF, 97}

LooseTexts == UNION {[1..n -> LooseChars] : n \in 0..MaxText}

InitLoose ==
    /\ clock = ImportTime
    /\ \E text \in LooseTexts : files = Put(NoFiles, NsLoose, text)
    /\ tmp = [exists |-> FALSE, files |-> NoFiles]
    /\ alive = FALSE
    /\ ensure = FALSE
    /\ namespace = DEFAULT_NAMESPACE
    /\ id_length = DEFAULT_ID_LENGTH
    /\ registry = NoFiles
    /\ keys = <<>>
    /\ dirty = NoFiles
    /\ atLoad = NoFiles
    /\ issued = {}
    /\ raised = {}
    /\ past = {}
    /\ last = Quiet("import")
    /\ calls = 0
    /\ sessions = 0
    /\ foreign = {}

NextLoose ==
    \/ Construct(TRUE, Some(RegistryDir), NsLoose, DEFAULT_ID_LENGTH)
    \/ \E c \in Contents, dt \in {None} \cup {Some(t) : t \in DateTimes} : Make(c, None, dt, None)
    \/ Teardown

SpecLoose == InitLoose /\ [][NextLoose]_vars

\* ----------------------------------------------------------- properties

\* A step that is a call of make(), and one that is the teardown of the instance.
MakeStep == calls' = calls + 1

TeardownStep == alive /\ ~alive'

\* The lines a text holds, as splitlines() gives them.
LinesIn(text) == Range(SplitLines(text))

\* The registry of namespace ns as this instance knows or would load it: its
\* cached set, or the lines of its file.
Known(ns) ==
    IF ns \in DOMAIN registry THEN registry[ns]
    ELSE IF IsFile(ns) THEN LinesIn(files[ns]) ELSE {}

\* The digest part of the identifier id of namespace ns.
DigestIn(id, ns) == SubSeq(id, Len(Format(ns, <<>>)) + 1, Len(id))

\* The digest sizes from length on, up to MAX_TRIES more, at which data has no
\* digest in the set r.
FreeAt(r, data, length) == {k \in 0..MAX_TRIES : Blake2bHex(data, length + k) \notin r}

\* The places of ops where call was made on name (as source or destination).
Places(ops, call, name) ==
    {i \in DOMAIN ops : ops[i].call = call /\ (ops[i].src = name \/ ops[i].dst = name)}

\* C1: with enforcement, the digest of every identifier make() returns was
\* not in the namespace's set before the call and is in it after, and the
\* instance has not returned that identifier in that namespace before.
C1_FreshThenRegistered ==
    [][(MakeStep /\ ensure /\ last'.ret # None) =>
        LET ns == NamespaceOf(last'.args)
            d == DigestIn(last'.ret[1], ns)
        IN  /\ last'.ret[1] = Format(ns, d)
            /\ d \notin Known(ns)
            /\ ns \in DOMAIN registry'
            /\ d \in registry'[ns]
            /\ <<ns, d>> \notin issued
            /\ \A x \in issued : Format(x[1], x[2]) # last'.ret[1]]_vars

\* Two identifiers were returned in one namespace, the last after a collision.
C1_Witness ==
    /\ alive /\ ensure /\ last.op = "make" /\ last.ret # None /\ last.tries > 0
    /\ Cardinality({x \in issued : x[1] = NamespaceOf(last.args)}) >= 2

\* C2: a digest an instance registered before it was torn down is in the
\* namespace's file, with every line the file held at the start, is in the
\* set a later instance loads, and is not returned again in that namespace.
C2_Durable ==
    /\ \A x \in past :
          /\ IsFile(x[1])
          /\ x[1] \in DOMAIN registry => x[2] \in registry[x[1]]
          /\ x \notin issued
    /\ \A lines \in {LinesIn(files[NsSeeded])} :
          /\ SeedLines \subseteq lines
          /\ \A x \in past : x[1] = NsSeeded => x[2] \in lines
    /\ \A lines \in {LinesIn(files[NsFull])} :
          /\ Range(FullLines) \subseteq lines
          /\ \A x \in past : x[1] = NsFull => x[2] \in lines
    /\ \A x \in past : x[1] \in {NsSeeded, NsFull}

\* A later instance made the id of an input whose first digest an earlier
\* instance had registered in the same namespace, and returned another.
C2_Witness ==
    /\ alive /\ ensure /\ last.op = "make" /\ last.ret # None
    /\ <<NamespaceOf(last.args), Blake2bHex(last.data, LengthOf(last.args))>> \in past

\* C3: at teardown every dirty namespace gets exactly one backup, made before
\* its file is written over, that holds what the file held before.
C3_BackupBeforeOverwrite ==
    [][(TeardownStep /\ ensure) =>
        \A k \in DOMAIN dirty :
            /\ BakName(k, clock) \in DOMAIN files'
            /\ files'[BakName(k, clock)] = files[k]
            /\ Cardinality(Places(last'.ops, "copy2", k)) = 1
            /\ Cardinality(Places(last'.ops, "write", k)) = 1
            /\ \A i \in Places(last'.ops, "copy2", k) :
                  /\ last'.ops[i] = Io("copy2", k, BakName(k, clock))
                  /\ \A j \in Places(last'.ops, "write", k) : i < j]_vars

\* A teardown has flushed two dirty namespaces.
C3_Witness ==
    /\ last.op = "del"
    /\ Cardinality({i \in DOMAIN last.ops : last.ops[i].call = "copy2"}) = 2

\* C4: after teardown the file of a dirty namespace holds the lines it held
\* before and the digests the instance registered in it, one per line: as
\* many lines as it had distinct lines before plus the number registered.
C4_FileAfterTeardown ==
    [][(TeardownStep /\ ensure) =>
        \A k \in DOMAIN dirty :
            LET mine == {x[2] : x \in {y \in issued : y[1] = k}}
            IN  /\ mine # {}
                /\ mine \cap LinesIn(files[k]) = {}
                /\ LinesIn(files'[k]) = LinesIn(files[k]) \cup mine
                /\ Len(SplitLines(files'[k]))
                       = Cardinality(LinesIn(files[k])) + Cardinality(mine)]_vars

\* The file with one seed line holds three lines after a teardown: N = 2.
C4_Witness ==
    /\ last.op = "del"
    /\ Places(last.ops, "write", NsSeeded) # {}
    /\ Len(SplitLines(files[NsSeeded])) = 3

\* C5: teardown leaves a namespace that was loaded but never got dirty as it
\* was: its file is not written, and no backup of it is made or changed.
C5_CleanUntouched ==
    [][(TeardownStep /\ ensure) =>
        \A k \in (DOMAIN registry) \ (DOMAIN dirty) :
            /\ k \in DOMAIN files' /\ files'[k] = files[k]
            /\ \A t \in Instants :
                  /\ BakName(k, t) \in DOMAIN files' => BakName(k, t) \in DOMAIN files
                  /\ BakName(k, t) \in DOMAIN files =>
                         files'[BakName(k, t)] = files[BakName(k, t)]
            /\ Places(last'.ops, "copy2", k) = {}
            /\ Places(last'.ops, "write", k) = {}]_vars

\* A teardown passed over a loaded namespace and flushed another.
C5_Witness ==
    /\ last.op = "del"
    /\ \E i, j \in DOMAIN last.ops : last.ops[i].call = "pass" /\ last.ops[j].call = "write"

C7_ExhaustedLeavesRegistry ==
    [][(MakeStep /\ ensure /\ IsFile(NamespaceOf(last'.args))
            /\ FreeAt(Known(NamespaceOf(last'.args)), DataOf(last'.args),
                      LengthOf(last'.args)) = {}) =>
        LET ns == NamespaceOf(last'.args)
        IN  /\ last'.err = "ValueError"
            /\ last'.ret = None
            /\ ns \in DOMAIN registry' /\ registry'[ns] = Known(ns)
            /\ \A k \in DOMAIN registry : k \in DOMAIN registry' /\ registry'[k] = registry[k]
            /\ DOMAIN registry' = DOMAIN registry \cup {ns}
            /\ dirty' = dirty
            /\ issued' = issued
            /\ files' = files]_vars

\* make() ran out of tries in a namespace that was dirty before and still is.
C7_Witness ==
    /\ alive /\ ensure /\ last.op = "make" /\ last.err = "ValueError" /\ last.ret = None
    /\ NamespaceOf(last.args) \in DOMAIN dirty

\* C8: make() on a namespace with no file raises the load error, returns
\* nothing and leaves the namespace uncached and not dirty, whatever came
\* before; the instance is as it was, and its make() on a namespace that has
\* a file does not raise that error.
C8_MissingFileFails ==
    [][(MakeStep /\ ensure) =>
        LET ns == NamespaceOf(last'.args)
        IN  IF ~IsFile(ns)
            THEN /\ last'.err = "IOError"
                 /\ last'.ret = None
                 /\ ns \notin DOMAIN registry' /\ ns \notin DOMAIN dirty'
                 /\ alive'
                 /\ UNCHANGED <<ensure, namespace, id_length, registry, keys, dirty, issued,
                                files>>
            ELSE /\ last'.err # "IOError"
                 /\ FreeAt(Known(ns), DataOf(last'.args), LengthOf(last'.args)) # {}
                        => last'.ret # None]_vars

\* After a make() that raised the load error, a make() of the same instance
\* has returned an identifier.
C8_Witness ==
    /\ alive /\ ensure /\ "IOError" \in raised
    /\ last.op = "make" /\ last.ret # None

\* What holds of tmp while an enforcing instance lives.
C9_SnapshotKept ==
    (alive /\ ensure) =>
        \A ns \in DOMAIN registry :
            /\ tmp.exists
            /\ ns \in DOMAIN tmp.files
            /\ ns \in DOMAIN atLoad
            /\ tmp.files[ns] = atLoad[ns]

\* C9: from the load of a namespace to the teardown, tmp holds a file of the
\* namespace's name with the text the registry file had when it was loaded;
\* after the teardown of an instance that loaded a namespace, tmp is gone.
C9_SnapshotUntilTeardown ==
    /\ []C9_SnapshotKept
    /\ [][(TeardownStep /\ ensure /\ keys # <<>> /\ last'.err = "") => ~tmp'.exists]_vars

\* A teardown has removed tmp.
C9_Witness ==
    /\ last.op = "del" /\ last.err = ""
    /\ \E i \in DOMAIN last.ops : last.ops[i].call = "rmtree"
    /\ ~tmp.exists

\* C10: a make() that is given no date_time hashes the time of the call.
C10_DefaultIsCallTime ==
    [][(MakeStep /\ last'.args.date_time = None) =>
        last'.data = IsoFormat(clock) \o ContentBytes(last'.args.content)]_vars

\* What make() gives back: the identifier it returns and the error it raises.
Result(o) == [ret |-> o.ret, err |-> o.err]

\* make(), lines 132-151, once the namespace's set r is loaded.
ReturnsWith(r, ns, data, length) ==
    CHOOSE o \in {IF try.err # "" THEN [ret |-> None, err |-> try.err]
                  ELSE [ret |-> Some(Format(ns, try.digest)), err |-> ""]
                  : try \in {Retry(r, data, length, 0)}} : TRUE

\* What make(args) gives back in this state of the registry on an instance
\* whose defaults are defNs and defLen.
MakeReturns(args, defNs, defLen) ==
    LET ns == EffectiveNamespace(args.namespace, defNs)
        length == EffectiveLength(args.id_length, defLen)
        data == DataOf(args)
    IN  IF ~ensure THEN [ret |-> Some(Format(ns, Blake2bHex(data, length))), err |-> ""]
        ELSE CHOOSE o \in {IF ld.err # "" THEN [ret |-> None, err |-> ld.err]
                           ELSE ReturnsWith(ld.r, ns, data, length)
                           : ld \in {LoadRegister(ns)}} : TRUE

\* C11: a namespace or id_length given to make() is used in place of the
\* instance's default, the empty namespace included, and make() gives back
\* what it gives back without them on an instance that has them as defaults,
\* in the same state of the registry.
C11_OverrideIsDefault ==
    [][MakeStep =>
        LET a == last'.args
        IN  /\ a.namespace # None =>
                 Result(last') = MakeReturns(Args(a.content, None, a.date_time, a.id_length),
                                             a.namespace[1], id_length)
            /\ a.id_length # None =>
                 Result(last') = MakeReturns(Args(a.content, a.namespace, a.date_time, None),
                                             namespace, a.id_length[1])
            /\ (a.namespace # None /\ a.id_length # None) =>
                 Result(last') = MakeReturns(Args(a.content, None, a.date_time, None),
                                             a.namespace[1], a.id_length[1])]_vars

\* make() was given the empty namespace and a length on an instance whose
\* defaults are another namespace and another length, and returned '/<digest>'
\* of the given length.
C11_Witness ==
    /\ alive /\ last.op = "make"
    /\ last.args.namespace = Some(DEFAULT_NAMESPACE) /\ namespace # DEFAULT_NAMESPACE
    /\ last.args.id_length # None /\ last.args.id_length[1] # id_length
    /\ last.ret = Some(<<Slash>> \o Blake2bHex(last.data, last.args.id_length[1]))

\* The characters hexdigest() writes.
IsHex(c) == c \in (48..57) \cup (97..102)

C13_PureWithoutEnsure ==
    [][/\ (MakeStep /\ ~ensure) =>
            LET a == last'.args
                stamp == IsoFormat(IF a.date_time = None THEN ImportTime ELSE a.date_time[1])
                ns == IF a.namespace = None THEN namespace ELSE a.namespace[1]
                length == IF a.id_length = None THEN id_length ELSE a.id_length[1]
            IN  /\ last'.err = ""
                /\ last'.ret =
                      Some(Format(ns, Blake2bHex(stamp \o ContentBytes(a.content), length)))
                /\ (last.op = "make" /\ last.args = a) => last'.ret = last.ret
                /\ last'.ops = <<>>
                /\ UNCHANGED <<files, tmp, registry, dirty>>
       /\ (TeardownStep /\ ~ensure) => (last'.ops = <<>> /\ UNCHANGED <<files, tmp>>)]_vars

\* The second of two calls of an instance without enforcement, at a later
\* instant than the import, returned the identifier of its arguments, and the
\* registry directory has no tmp.
C13_Witness ==
    /\ alive /\ ~ensure /\ last.op = "make" /\ calls = 2 /\ sessions = 1
    /\ clock > ImportTime /\ last.args.date_time = None
    /\ last.ret # None /\ last.ops = <<>>
    /\ ~tmp.exists

\* C14: with enforcement, make() in the empty namespace loads that
\* namespace's registry and returns '/<digest>' with the digest registered in
\* the empty namespace's set.
C14_EmptyNamespaceUsable ==
    [][(MakeStep /\ ensure /\ NamespaceOf(last'.args) = DEFAULT_NAMESPACE) =>
        /\ last'.err = ""
        /\ last'.ret # None
        /\ last'.ret[1] = Format(DEFAULT_NAMESPACE, DigestIn(last'.ret[1], DEFAULT_NAMESPACE))
        /\ DEFAULT_NAMESPACE \in DOMAIN registry'
        /\ DigestIn(last'.ret[1], DEFAULT_NAMESPACE) \in registry'[DEFAULT_NAMESPACE]]_vars

\* The cached set of every loaded namespace is the lines its file had when it
\* was loaded and the digests registered in it since.
C15_SetIsLoadedAndIssued ==
    (alive /\ ensure) =>
        \A ns \in DOMAIN registry :
            /\ ns \in DOMAIN atLoad
            /\ registry[ns] = LinesIn(atLoad[ns]) \cup {x[2] : x \in {y \in issued : y[1] = ns}}

\* C15: all through the life of an enforcing instance the cached set of a
\* loaded namespace is the lines of its file at the load united with the
\* digests make() has returned in that namespace; a make() adds the digest it
\* returns and nothing else, and no member is ever taken out.
C15_CachedSetInvariant ==
    /\ []C15_SetIsLoadedAndIssued
    /\ [][(alive /\ ensure /\ alive') =>
            /\ \A ns \in DOMAIN registry : ns \in DOMAIN registry' /\ registry[ns] \subseteq registry'[ns]
            /\ MakeStep =>
                 \A ns \in DOMAIN registry' :
                    registry'[ns] \ Known(ns) =
                        IF ns = NamespaceOf(last'.args) /\ last'.ret # None
                        THEN {DigestIn(last'.ret[1], ns)} ELSE {}]_vars

\* The namespace whose file repeats a line is loaded, and its set is the
\* distinct lines of the file and one digest returned since.
C15_Witness ==
    /\ alive /\ ensure /\ NsFull \in DOMAIN registry
    /\ Cardinality({x \in issued : x[1] = NsFull}) = 1
    /\ Cardinality(registry[NsFull]) = MAX_TRIES + 2

\* C16: the set a load builds holds the lines of the file that are not
\* empty and nothing else, whatever the file holds: the empty string is never
\* a member of it.
C16_NonEmptyLinesOnly ==
    [][(MakeStep /\ ensure /\ NamespaceOf(last'.args) \notin DOMAIN registry
            /\ NamespaceOf(last'.args) \in DOMAIN registry') =>
        LET ns == NamespaceOf(last'.args)
            loaded == registry'[ns] \ {x[2] : x \in {y \in issued' : y[1] = ns}}
        IN  /\ <<>> \notin registry'[ns]
            /\ loaded = {l \in LinesIn(files[ns]) : l # <<>>}]_vars

\* C17: after the teardown of an enforcing instance whose make() calls all
\* failed with the load error, the registry directory has no tmp and its files
\* are as they were.
C17_NoScratchAfterFailedLoads ==
    [][(TeardownStep /\ ensure /\ raised = {"IOError"} /\ DOMAIN registry = {}) =>
        (~tmp'.exists /\ files' = files)]_vars

\* C18: make() in a namespace leaves the cached set and the dirty flag of
\* every other namespace as they were, what it gives back is fixed by its own
\* namespace's set alone, and a digest that is free in its namespace is
\* returned without a collision although another namespace holds it.
C18_PerNamespace ==
    [][(MakeStep /\ ensure) =>
        LET ns == NamespaceOf(last'.args)
            data == DataOf(last'.args)
            length == LengthOf(last'.args)
        IN  /\ DOMAIN registry' \subseteq DOMAIN registry \cup {ns}
            /\ \A b \in DOMAIN registry \ {ns} : b \in DOMAIN registry' /\ registry'[b] = registry[b]
            /\ DOMAIN dirty' \subseteq DOMAIN dirty \cup {ns}
            /\ \A b \in DOMAIN dirty \ {ns} : b \in DOMAIN dirty' /\ dirty'[b] = dirty[b]
            /\ (ns \in DOMAIN registry \/ IsFile(ns)) =>
                  \A r \in {Known(ns)} :
                     /\ Result(last') = ReturnsWith(r, ns, data, length)
                     /\ Blake2bHex(data, length) \notin r =>
                           /\ last'.tries = 0
                           /\ last'.ret = Some(Format(ns, Blake2bHex(data, length)))]_vars

\* One instance has returned the same digest in two namespaces, the second
\* time with no collision.
C18_Witness ==
    /\ alive /\ ensure /\ last.op = "make" /\ last.ret # None /\ last.tries = 0
    /\ \E x \in issued, y \in issued : x[1] # y[1] /\ x[2] = y[2]

\* C19: what a second Maker writes into the file of a namespace this instance
\* has loaded never reaches this instance: its make() gives back what its own
\* cached set fixes; its teardown writes its own set over the file of every
\* dirty namespace, so a digest of the second Maker that this instance does
\* not hold is in the file no more.
C19_NoCoordination ==
    [][/\ (MakeStep /\ ensure /\ NamespaceOf(last'.args) \in DOMAIN registry) =>
            LET ns == NamespaceOf(last'.args)
            IN  /\ Result(last') =
                      ReturnsWith(registry[ns], ns, DataOf(last'.args), LengthOf(last'.args))
                /\ \A d \in registry'[ns] \ registry[ns] : last'.ret = Some(Format(ns, d))
       /\ (TeardownStep /\ ensure) =>
            \A ns \in DOMAIN registry :
                IsDirty(ns) =>
                    /\ LinesIn(files'[ns]) = registry[ns]
                    /\ \A x \in foreign :
                          (x[1] = ns /\ x[2] \notin registry[ns]) => x[2] \notin LinesIn(files'[ns])
      ]_vars

\* After the teardown, a digest the second Maker wrote is in the file no
\* more, and a digest the second Maker wrote was returned by this instance
\* too.
C19_Witness ==
    /\ ~alive /\ last.op = "del"
    /\ \E x \in foreign : x[2] \notin LinesIn(files[x[1]])
    /\ \E y \in foreign : y \in past

\* A teardown step in which the flush of a namespace failed, and the place of
\* that namespace among the loaded ones.
FlushFailed == TeardownStep /\ \E j \in DOMAIN last'.ops : last'.ops[j].call = "unraisable"

FailedAt ==
    CHOOSE i \in DOMAIN keys :
        \E j \in DOMAIN last'.ops : last'.ops[j].call = "unraisable" /\ last'.ops[j].src = keys[i]

\* Nothing is rolled back: a dirty namespace before the failure has its set
\* in its file and its backup, a namespace after it has its file as it was,
\* and tmp is as it was.
NoRollback ==
    /\ \A i \in 1..(FailedAt - 1) :
          IsDirty(keys[i]) =>
              /\ LinesIn(files'[keys[i]]) = registry[keys[i]]
              /\ BakName(keys[i], clock) \in DOMAIN files'
              /\ files'[BakName(keys[i], clock)] = files[keys[i]]
    /\ \A i \in (FailedAt + 1)..Len(keys) : files'[keys[i]] = files[keys[i]]
    /\ tmp' = tmp

\* C20: when the flush of a namespace fails in the teardown, the error comes
\* out of the teardown to the code that ended the instance, and nothing is
\* rolled back.
C20_FailurePropagates ==
    [][FlushFailed => (last'.err = "IOError" /\ NoRollback)]_vars

====
